---- MODULE Spec2Model ----
(***************************************************************************)
(* TwinSight-AI: the synthetic asset lifecycle and physics simulation.     *)
(*                                                                         *)
(* Bulk mode: scripts/data_seeder.py, generate_lifecycle_data.             *)
(* Real-time mode: scripts/realtime_simulation.py, run_simulation, with   *)
(* modules/machines/motor.py and modules/data/database_handler.py.         *)
(*                                                                         *)
(* Real numbers are fixed-point integers with four decimals: 1.0 is 10000, *)
(* so 80.0 degrees is 800000 and a load fraction of 0.6 is 6000.  A        *)
(* datetime is [sec, us]: whole seconds since midnight of the day the      *)
(* history starts, and the microseconds within the second.                 *)
(* A random.uniform(a, b) draw is a choice from a small sample of [a, b]   *)
(* that holds both ends.                                                   *)
(***************************************************************************)
EXTENDS Integers, Sequences, FiniteSets, TLC

(***************************************************************************)
(* Configuration (data_seeder.py:11-14), scaled down: the script has 50    *)
(* assets, 180 days, a tick of 60 minutes and batches of 5000 rows.        *)
(***************************************************************************)
NUM_MOTORS == 2
DAYS_HISTORY == 1
INTERVAL_MINUTES == 240
BATCH_SIZE == 5

STATE_HEALTHY == 0
STATE_FAILING == 1
STATE_REPAIRING == 2

(***************************************************************************)
(* The countdown ranges of the lifecycle, in ticks, scaled down so that a  *)
(* run of DAYS_HISTORY days passes through every phase.  The script draws  *)
(* randint(50, 2000), randint(216, 1080), randint(12, 36) and              *)
(* randint(1440, 4320).                                                    *)
(***************************************************************************)
HealthyInitMin == 1
HealthyInitMax == 2
FailingMin == 1
FailingMax == 2
RepairMin == 1
RepairMax == 1
HealthyMin == 1
HealthyMax == 2

(* How many storage writes the environment lets fail in one run. *)
MaxDbErrors == 1

None == "None"
MotorTypes == {"CONVEYOR", "FAN", "PUMP"}
FaultTypes == {"BEARING_WEAR", "COOLING_FAIL", "LOOSE_FOOT", "MULTI"}

(* random.randint(a, b): both ends included. *)
randint(a, b) == a..b

Min(a, b) == IF a <= b THEN a ELSE b
Max(a, b) == IF a >= b THEN a ELSE b

(* int(x / d) for d > 0: Python's int() truncates towards zero. *)
IntDiv(x, d) == IF x >= 0 THEN x \div d ELSE -((-x) \div d)

(* round(x, 2): to the nearest hundredth (a multiple of 100), ties to even. *)
Round2(x) ==
    LET q == x \div 100
        r == x % 100
    IN  IF r < 50 THEN q * 100
        ELSE IF r > 50 THEN (q + 1) * 100
        ELSE IF q % 2 = 0 THEN q * 100 ELSE (q + 1) * 100

get_base_specs(motor_type) ==
    IF motor_type = "CONVEYOR"
        THEN [rpm |-> 1750, temp |-> 550000, vib |-> 12000, heat_coeff |-> 15]
    ELSE IF motor_type = "FAN"
        THEN [rpm |-> 3600, temp |-> 480000, vib |-> 25000, heat_coeff |-> 10]
    ELSE IF motor_type = "PUMP"
        THEN [rpm |-> 1200, temp |-> 420000, vib |-> 8000, heat_coeff |-> 12]
    ELSE [rpm |-> 1800, temp |-> 500000, vib |-> 10000, heat_coeff |-> 10]

(* f"MTR-{i:03d}-{motor_type[:3]}": the index and the type's first three letters. *)
Prefix3(motor_type) ==
    IF motor_type = "CONVEYOR" THEN "CON"
    ELSE IF motor_type = "FAN" THEN "FAN"
    ELSE IF motor_type = "PUMP" THEN "PUM"
    ELSE "GEN"

MotorId(i, motor_type) == <<"MTR", i, Prefix3(motor_type)>>

(***************************************************************************)
(* datetime                                                                *)
(***************************************************************************)
SecondsPerDay == 24 * 60 * 60

(* datetime.now(): the time of day the run starts at, sampled. *)
NowSamples ==
    { [sec |-> DAYS_HISTORY * SecondsPerDay + s, us |-> u] :
        s \in {7 * 3600 + 30 * 60 + 15}, u \in {250000} }

MinusDays(t, d) == [sec |-> t.sec - d * SecondsPerDay, us |-> t.us]
PlusSeconds(t, n) == [sec |-> t.sec + n, us |-> t.us]
PlusMinutes(t, m) == [sec |-> t.sec + m * 60, us |-> t.us]
HourOf(t) == (t.sec \div 3600) % 24

(* strftime("%Y-%m-%d %H:%M:%S"): the whole seconds; the microseconds are dropped. *)
strftime(t) == t.sec

(* np.sin((hour - 6) * np.pi / 12) * 5.0, to four decimals. *)
HourNoise5(h) ==
    <<-50000, -48296, -43301, -35355, -25000, -12941, 0, 12941, 25000, 35355,
      43301, 48296, 50000, 48296, 43301, 35355, 25000, 12941, 0, -12941,
      -25000, -35355, -43301, -48296>>[h + 1]

(***************************************************************************)
(* random.uniform(a, b), sampled.  UniformEnds holds both ends of the      *)
(* interval, Uniform the ends and the middle, UniformMid the middle alone. *)
(* The accumulator increments and the load are drawn from both ends in a   *)
(* run; the three noise terms of a reading, which no later tick depends    *)
(* on, are drawn from the middle in a run and from the whole sample where  *)
(* one tick's readings are computed (SpecRecord).                          *)
(***************************************************************************)
UniformEnds(a, b) == {a, b}
UniformMid(a, b) == {(a + b) \div 2}
Uniform(a, b) == UniformEnds(a, b) \cup UniformMid(a, b)

WearIncrements == UniformEnds(20, 80)         \* random.uniform(0.002, 0.008)
ClogIncrements == UniformEnds(500, 1500)      \* random.uniform(0.05, 0.15)
ShiftLoads == UniformEnds(6000, 9500)         \* random.uniform(0.6, 0.95)
IdleLoads == UniformEnds(1000, 4000)          \* random.uniform(0.1, 0.4)
SpikeSizes == UniformEnds(20000, 50000)       \* random.uniform(2.0, 5.0)
AmbientNoise == Uniform(-10000, 10000)        \* random.uniform(-1, 1)
VibNoise == Uniform(-500, 500)                \* random.uniform(-0.05, 0.05)
TempNoise == Uniform(-5000, 5000)             \* random.uniform(-0.5, 0.5)
RunAmbientNoise == UniformMid(-10000, 10000)
RunVibNoise == UniformMid(-500, 500)
RunTempNoise == UniformMid(-5000, 5000)

WearFaults == {"BEARING_WEAR", "MULTI", "LOOSE_FOOT"}
ClogFaults == {"COOLING_FAIL", "MULTI"}

(***************************************************************************)
(* 1. State machine transition logic (data_seeder.py:84-108).  s is the    *)
(* lifecycle part of the asset's state, r_fault and r_steps the draws.     *)
(***************************************************************************)
CountdownRange(state) ==
    IF state = STATE_HEALTHY THEN randint(FailingMin, FailingMax)
    ELSE IF state = STATE_FAILING THEN randint(RepairMin, RepairMax)
    ELSE randint(HealthyMin, HealthyMax)

(* Transition with the repair forgetting to reset the wear accumulator. *)
TransitionKeepsWear(s, r_fault, r_steps) ==
    LET n == s.steps_until_change - 1
    IN  IF n <= 0
        THEN IF s.current_state = STATE_HEALTHY
             THEN [s EXCEPT !.current_state = STATE_FAILING,
                            !.current_fault_type = r_fault,
                            !.steps_until_change = r_steps]
             ELSE IF s.current_state = STATE_FAILING
             THEN [s EXCEPT !.current_state = STATE_REPAIRING,
                            !.steps_until_change = r_steps]
             ELSE [s EXCEPT !.current_state = STATE_HEALTHY,
                            !.clog_factor = 0,
                            !.current_fault_type = None,
                            !.steps_until_change = r_steps]
        ELSE [s EXCEPT !.steps_until_change = n]

(* Transition that leaves the countdown as it is when it fires. *)
TransitionNoReset(s, r_fault, r_steps) ==
    LET n == s.steps_until_change - 1
    IN  IF n <= 0
        THEN IF s.current_state = STATE_HEALTHY
             THEN [s EXCEPT !.current_state = STATE_FAILING,
                            !.current_fault_type = r_fault,
                            !.steps_until_change = n]
             ELSE IF s.current_state = STATE_FAILING
             THEN [s EXCEPT !.current_state = STATE_REPAIRING,
                            !.steps_until_change = n]
             ELSE [s EXCEPT !.current_state = STATE_HEALTHY,
                            !.wear_factor = 0,
                            !.clog_factor = 0,
                            !.current_fault_type = None,
                            !.steps_until_change = n]
        ELSE [s EXCEPT !.steps_until_change = n]

Transition(s, r_fault, r_steps) ==
    LET n == s.steps_until_change - 1
    IN  IF n <= 0
        THEN IF s.current_state = STATE_HEALTHY
             THEN [s EXCEPT !.current_state = STATE_FAILING,
                            !.current_fault_type = r_fault,
                            !.steps_until_change = r_steps]
             ELSE IF s.current_state = STATE_FAILING
             THEN [s EXCEPT !.current_state = STATE_REPAIRING,
                            !.steps_until_change = r_steps]
             ELSE IF s.current_state = STATE_REPAIRING
             THEN [s EXCEPT !.current_state = STATE_HEALTHY,
                            !.wear_factor = 0,
                            !.clog_factor = 0,
                            !.current_fault_type = None,
                            !.steps_until_change = r_steps]
             ELSE [s EXCEPT !.steps_until_change = n]
        ELSE [s EXCEPT !.steps_until_change = n]

(***************************************************************************)
(* 2. Degradation physics (data_seeder.py:110-115).                        *)
(***************************************************************************)
(* Degrade without the test of the state: it also runs while REPAIRING. *)
DegradeAnyState(s, r_wear, r_clog) ==
    [s EXCEPT
        !.wear_factor = IF s.current_fault_type \in WearFaults
                        THEN @ + r_wear ELSE @,
        !.clog_factor = IF s.current_fault_type \in ClogFaults
                        THEN @ + r_clog ELSE @]

(* Degrade with LOOSE_FOOT left out of the faults that wear. *)
DegradeLooseFootUnlisted(s, r_wear, r_clog) ==
    IF s.current_state = STATE_FAILING
    THEN [s EXCEPT
            !.wear_factor = IF s.current_fault_type \in {"BEARING_WEAR", "MULTI"}
                            THEN @ + r_wear ELSE @,
            !.clog_factor = IF s.current_fault_type \in ClogFaults
                            THEN @ + r_clog ELSE @]
    ELSE s

Degrade(s, r_wear, r_clog) ==
    IF s.current_state = STATE_FAILING
    THEN [s EXCEPT
            !.wear_factor = IF s.current_fault_type \in WearFaults
                            THEN @ + r_wear ELSE @,
            !.clog_factor = IF s.current_fault_type \in ClogFaults
                            THEN @ + r_clog ELSE @]
    ELSE s

(***************************************************************************)
(* 3. Environment and load (data_seeder.py:117-144).  rpm_val is           *)
(* int(rpm * (1 - 0.02 * base_load)), computed exactly: rpm * (500000 -    *)
(* load) / 500000, truncated.                                              *)
(***************************************************************************)
IsShift(hour) == 8 <= hour /\ hour <= 18

LoadDraws(hour) == IF IsShift(hour) THEN ShiftLoads ELSE IdleLoads

(* The interval <<a, b>> the load is drawn from at that hour. *)
LoadInterval(hour) == IF IsShift(hour) THEN <<6000, 9500>> ELSE <<1000, 4000>>

(* random.uniform(a, b) is a + (b - a) * random(): what the random number   *)
(* that gave x in the interval from gives in the interval to.              *)
SamePosition(x, from, to) ==
    to[1] + IntDiv((x - from[1]) * (to[2] - to[1]), from[2] - from[1])

(* Physics without the branch for a machine under repair. *)
PhysicsNoRepairBranch(s, specs, hour, r_amb, r_load, r_vib, spike, r_spike, r_temp) ==
    LET ambient_temp == 250000 + HourNoise5(hour) + r_amb
    IN  [base_load |-> r_load,
         rpm_val   |-> IntDiv(specs.rpm * (500000 - r_load), 500000),
         vib_val   |-> specs.vib + (r_load \div 2) + s.wear_factor + r_vib
                       + (IF s.current_fault_type = "LOOSE_FOOT"
                             /\ s.current_state = STATE_FAILING /\ spike
                          THEN r_spike ELSE 0),
         temp_val  |-> ambient_temp + (r_load * specs.heat_coeff)
                       + s.clog_factor + r_temp]

Physics(s, specs, hour, r_amb, r_load, r_vib, spike, r_spike, r_temp) ==
    LET ambient_temp == 250000 + HourNoise5(hour) + r_amb
    IN  IF s.current_state = STATE_REPAIRING
        THEN [base_load |-> 0, rpm_val |-> 0, vib_val |-> 0, temp_val |-> ambient_temp]
        ELSE [base_load |-> r_load,
              rpm_val   |-> IntDiv(specs.rpm * (500000 - r_load), 500000),
              vib_val   |-> specs.vib + (r_load \div 2) + s.wear_factor + r_vib
                            + (IF s.current_fault_type = "LOOSE_FOOT"
                                  /\ s.current_state = STATE_FAILING /\ spike
                               THEN r_spike ELSE 0),
              temp_val  |-> ambient_temp + (r_load * specs.heat_coeff)
                            + s.clog_factor + r_temp]

(***************************************************************************)
(* 4. Status and degradation level (data_seeder.py:148-160).               *)
(***************************************************************************)
(* StatusLabel with the thresholds included in the higher label. *)
StatusLabelInclusive(state, temp_val, vib_val) ==
    IF state = STATE_REPAIRING THEN "MAINTENANCE"
    ELSE IF temp_val >= 800000 \/ vib_val >= 50000 THEN "CRITICAL"
    ELSE IF temp_val >= 650000 \/ vib_val >= 35000 THEN "WARNING"
    ELSE "NORMAL"

(* StatusLabel with the vibration test of the warning turned round. *)
StatusLabelFlipped(state, temp_val, vib_val) ==
    IF state = STATE_REPAIRING THEN "MAINTENANCE"
    ELSE IF temp_val > 800000 \/ vib_val > 50000 THEN "CRITICAL"
    ELSE IF temp_val > 650000 \/ vib_val < 35000 THEN "WARNING"
    ELSE "NORMAL"

StatusLabel(state, temp_val, vib_val) ==
    IF state = STATE_REPAIRING THEN "MAINTENANCE"
    ELSE IF temp_val > 800000 \/ vib_val > 50000 THEN "CRITICAL"
    ELSE IF temp_val > 650000 \/ vib_val > 35000 THEN "WARNING"
    ELSE "NORMAL"

(* DegradationLevel without the ceiling of 100. *)
DegradationLevelNoCeiling(wear_factor, clog_factor) ==
    Max(0, (wear_factor * 15) + (clog_factor * 2))

(* DegradationLevel with the two weights taken for each other. *)
DegradationLevelSwappedWeights(wear_factor, clog_factor) ==
    LET deg_calc == (wear_factor * 2) + (clog_factor * 15)
    IN  Min(1000000, Max(0, deg_calc))

DegradationLevel(wear_factor, clog_factor) ==
    LET deg_calc == (wear_factor * 15) + (clog_factor * 2)
    IN  Min(1000000, Max(0, deg_calc))

(* The tuple appended to records_buffer (data_seeder.py:163-172). *)
MakeRecord(motor_id, t, s, p) ==
    [motor_id          |-> motor_id,
     timestamp         |-> strftime(t),
     status            |-> StatusLabel(s.current_state, p.temp_val, p.vib_val),
     load_pct          |-> Round2(p.base_load * 100),
     speed_rpm         |-> p.rpm_val,
     temperature_c     |-> Round2(p.temp_val),
     vibration_mm_s    |-> Round2(p.vib_val),
     degradation_level |-> Round2(DegradationLevel(s.wear_factor, s.clog_factor))]

(* What tells the rows of the telemetry table apart: the asset's index (in *)
(* its motor_id) and the timestamp.                                        *)
RowOf(rec) == <<rec.motor_id[2], rec.timestamp>>

(***************************************************************************)
(* Batch insert (data_seeder.py:176-205).  The storage is SQLite: db_rows  *)
(* are the committed rows of the telemetry table, db_txn the rows inserted *)
(* in the connection's open transaction.  An outcome of -1 is success; an  *)
(* outcome k >= 0 is a sqlite3.Error raised after k rows of the batch were *)
(* inserted (k = len(batch): conn.commit() raised).                        *)
(***************************************************************************)
(* ExecuteMany that inserts the newest row of the batch first. *)
ExecuteManyNewestFirst(txn, rows, k) == txn \o [j \in 1..k |-> rows[k + 1 - j]]

ExecuteMany(txn, rows, k) == txn \o SubSeq(rows, 1, k)
Commit(rows, txn) == rows \o txn
Rollback(txn) == << >>

(* cursor.rowcount after executemany: the rows the statement inserted. *)
RowCount(rows) == Len(rows)

WriteOutcomes(buf, errors) ==
    {-1} \cup (IF errors < MaxDbErrors THEN {0, 1, Len(buf)} ELSE {})

(* BatchInsert whose handler does not call conn.rollback(). *)
BatchInsertNoRollback(d, buf, outcome) ==
    IF Len(buf) >= BATCH_SIZE
    THEN IF outcome = -1
         THEN [rows   |-> Commit(d.rows, ExecuteMany(d.txn, buf, Len(buf))),
               txn    |-> << >>,
               total  |-> IF RowCount(buf) = Len(buf)
                          THEN d.total + Len(buf) ELSE d.total,
               buffer |-> << >>,
               errors |-> d.errors,
               writes |-> d.writes + 1]
         ELSE [rows   |-> d.rows,
               txn    |-> ExecuteMany(d.txn, buf, outcome),
               total  |-> d.total,
               buffer |-> buf,
               errors |-> d.errors + 1,
               writes |-> d.writes + 1]
    ELSE [d EXCEPT !.buffer = buf]

(* The try/except of the loop, data_seeder.py:177-194. *)
BatchInsert(d, buf, outcome) ==
    IF Len(buf) >= BATCH_SIZE
    THEN IF outcome = -1
         THEN [rows   |-> Commit(d.rows, ExecuteMany(d.txn, buf, Len(buf))),
               txn    |-> << >>,
               total  |-> IF RowCount(buf) = Len(buf)
                          THEN d.total + Len(buf) ELSE d.total,
               buffer |-> << >>,
               errors |-> d.errors,
               writes |-> d.writes + 1]
         ELSE [rows   |-> d.rows,
               txn    |-> Rollback(ExecuteMany(d.txn, buf, outcome)),
               total  |-> d.total,
               buffer |-> buf,
               errors |-> d.errors + 1,
               writes |-> d.writes + 1]
    ELSE [d EXCEPT !.buffer = buf]

(***************************************************************************)
(* State of generate_lifecycle_data.                                       *)
(***************************************************************************)
VARIABLES
    config,           \* NUM_MOTORS and DAYS_HISTORY as the script has them
    pc,               \* "motor": at the head of the loop over the assets;
                      \* "step": in the loop over the ticks; "done": returned;
                      \* "crashed": left by an exception
    now,              \* datetime.now() when the run started
    start_date,
    i,                \* the asset's index, 0 before the first
    motor_type,
    motor_id,         \* << >> before the first asset, then MotorId(i, type)
    asset,            \* current_state, steps_until_change, wear_factor,
                      \* clog_factor, current_fault_type
    curr_time,
    step,             \* ticks of this asset done
    last,             \* << >> before the first tick, then <<r>>: the state the
                      \* tick began in (prev) and went on in (state), its
                      \* readings (p) and the record it appended (rec)
    records_buffer,
    total_inserted,
    db_rows,
    db_txn,
    db_errors,        \* "CRITICAL DB ERROR" lines printed, and uncaught errors
    db_writes,        \* executemany calls made
    emitted,          \* every row appended to records_buffer, in order
    twin              \* a second run of the script on the same random numbers
                      \* and the same configuration: its datetime.now(), its
                      \* start_date and curr_time, and the record of its
                      \* latest tick (rec: << >> before the first, then <<r>>)

(***************************************************************************)
(* State of the real-time mode: MotorSimulator objects (machines/motor.py) *)
(* and run_simulation (scripts/realtime_simulation.py) with its            *)
(* DatabaseHandler (data/database_handler.py).                             *)
(***************************************************************************)
VARIABLES
    assets,           \* the list of MotorSimulator objects
    rt_pc,            \* where run_simulation is
    cycle,            \* passes of the loop of line 53 completed
    asset_ix,         \* which asset of the list the pass is at
    db,               \* DatabaseHandler: connection, cursor, and the telemetry
                      \* table of the file: whether it exists, its committed
                      \* rows, and the rows of the open transaction (txn)
    packet,           \* << >>, or <<p>>: the latest telemetry_packet
    target_speed,     \* << >>, or <<t>>: target_speed of the latest cycle a
                      \* running motor simulated
    calls,            \* get_telemetry and save_reading calls of the driver
    rt_errors,        \* sqlite3.Error exceptions raised so far
    ended_by,         \* what took run_simulation to its finally clause
    wall              \* the wall clock, in milliseconds

bulk_vars == <<config, pc, now, start_date, i, motor_type, motor_id, asset,
               curr_time, step, last, records_buffer, total_inserted, db_rows,
               db_txn, db_errors, db_writes, emitted, twin>>

rt_vars == <<assets, rt_pc, cycle, asset_ix, db, packet, target_speed, calls,
             rt_errors, ended_by, wall>>

vars == <<bulk_vars, rt_vars>>

(* DatabaseHandler.__init__, database_handler.py:16-27. *)
DatabaseHandler ==
    [connection |-> None, cursor |-> None, table |-> FALSE,
     rows |-> << >>, txn |-> << >>]

(* The real-time mode before anything of it has run. *)
RtIdle ==
    /\ assets = << >>
    /\ rt_pc = "idle"
    /\ cycle = 0
    /\ asset_ix = 1
    /\ db = DatabaseHandler
    /\ packet = << >>
    /\ target_speed = << >>
    /\ calls = << >>
    /\ rt_errors = 0
    /\ ended_by = None
    /\ wall = 0

(* total_steps = int((DAYS_HISTORY * 24 * 60) / INTERVAL_MINUTES) *)
total_steps == IntDiv(config.DAYS_HISTORY * 24 * 60, INTERVAL_MINUTES)

(* The configuration of this model's run: the bounds above. *)
DefaultConfig == [NUM_MOTORS |-> NUM_MOTORS, DAYS_HISTORY |-> DAYS_HISTORY]

(* The second run starts delay seconds after the first. *)
NewTwin(t, delay, days) ==
    LET t2 == PlusSeconds(t, delay)
    IN  [now        |-> t2,
         start_date |-> MinusDays(t2, days),
         curr_time  |-> MinusDays(t2, days),
         rec        |-> << >>]

NewAsset(r_steps) ==
    [current_state      |-> STATE_HEALTHY,
     steps_until_change |-> r_steps,
     wear_factor        |-> 0,
     clog_factor        |-> 0,
     current_fault_type |-> None]

(* The state at line 58, for a configuration and a delay of the second run. *)
BulkStart(cfg, delay) ==
    /\ config = cfg
    /\ pc = "motor"
    /\ now \in NowSamples
    /\ start_date = MinusDays(now, cfg.DAYS_HISTORY)
    /\ twin = NewTwin(now, delay, cfg.DAYS_HISTORY)
    /\ i = 0
    /\ motor_type = None
    /\ motor_id = << >>
    /\ asset = NewAsset(0)
    /\ curr_time = start_date
    /\ step = 0
    /\ last = << >>
    /\ records_buffer = << >>
    /\ total_inserted = 0
    /\ db_rows = << >>
    /\ db_txn = << >>
    /\ db_errors = 0
    /\ db_writes = 0
    /\ emitted = << >>

InitWith(cfg, delay) == BulkStart(cfg, delay) /\ RtIdle

Init == InitWith(DefaultConfig, 0)

(* AfterStep of a loop that runs once more: range(total_steps + 1). *)
AfterStepOneMore(n) == IF n <= total_steps THEN "step" ELSE "motor"

(* Where the loops go after a tick or at an asset's start. *)
AfterStep(n) == IF n < total_steps THEN "step" ELSE "motor"

(* for i in range(1, NUM_MOTORS + 1): the asset's set-up, data_seeder.py:58-80. *)
StartMotor ==
    /\ pc = "motor"
    /\ i < config.NUM_MOTORS
    /\ \E r_type \in MotorTypes, r_steps \in randint(HealthyInitMin, HealthyInitMax) :
        /\ i' = i + 1
        /\ motor_type' = r_type
        /\ motor_id' = MotorId(i + 1, r_type)
        /\ asset' = NewAsset(r_steps)
        /\ curr_time' = start_date
        /\ step' = 0
        /\ pc' = AfterStep(0)
    /\ twin' = [twin EXCEPT !.curr_time = twin.start_date]
    /\ UNCHANGED <<config, now, start_date, last, records_buffer, total_inserted,
                   db_rows, db_txn, db_errors, db_writes, emitted>>
    /\ UNCHANGED rt_vars

DbState ==
    [rows |-> db_rows, txn |-> db_txn, total |-> total_inserted,
     buffer |-> records_buffer, errors |-> db_errors, writes |-> db_writes]

(* One pass of the loop over the ticks, data_seeder.py:82-194. *)
Tick ==
    /\ pc = "step"
    /\ LET fires  == asset.steps_until_change - 1 <= 0
           specs  == get_base_specs(motor_type)
           hour   == HourOf(curr_time)
       IN
       \E r_fault \in (IF fires /\ asset.current_state = STATE_HEALTHY
                       THEN FaultTypes ELSE {None}),
          r_steps \in (IF fires THEN CountdownRange(asset.current_state) ELSE {0}) :
       LET s1 == Transition(asset, r_fault, r_steps)
       IN
       \E r_wear \in WearIncrements, r_clog \in ClogIncrements :
       LET s2 == Degrade(s1, r_wear, r_clog)
           loose == s2.current_fault_type = "LOOSE_FOOT"
       IN
       \E r_amb \in RunAmbientNoise,
          r_load \in LoadDraws(hour),
          r_vib \in RunVibNoise,
          r_temp \in RunTempNoise,
          spike \in (IF loose THEN BOOLEAN ELSE {FALSE}) :
       \E r_spike \in (IF spike THEN SpikeSizes ELSE {0}) :
       LET p   == Physics(s2, specs, hour, r_amb, r_load, r_vib, spike, r_spike, r_temp)
           rec == MakeRecord(motor_id, curr_time, s2, p)
           buf == Append(records_buffer, RowOf(rec))
           hour2   == HourOf(twin.curr_time)
           r_load2 == SamePosition(r_load, LoadInterval(hour), LoadInterval(hour2))
           p2  == Physics(s2, specs, hour2, r_amb, r_load2, r_vib, spike, r_spike, r_temp)
       IN
       \E outcome \in (IF Len(buf) >= BATCH_SIZE
                       THEN WriteOutcomes(buf, db_errors) ELSE {-1}) :
       LET d == BatchInsert(DbState, buf, outcome)
       IN  /\ asset' = s2
           /\ last' = <<[prev |-> asset.current_state, state |-> s2.current_state,
                          p |-> p, rec |-> rec]>>
           /\ emitted' = Append(emitted, RowOf(rec))
           /\ curr_time' = PlusMinutes(curr_time, INTERVAL_MINUTES)
           /\ step' = step + 1
           /\ pc' = AfterStep(step + 1)
           /\ records_buffer' = d.buffer
           /\ total_inserted' = d.total
           /\ db_rows' = d.rows
           /\ db_txn' = d.txn
           /\ db_errors' = d.errors
           /\ db_writes' = d.writes
           /\ twin' = [twin EXCEPT
                          !.rec = <<MakeRecord(motor_id, twin.curr_time, s2, p2)>>,
                          !.curr_time = PlusMinutes(twin.curr_time, INTERVAL_MINUTES)]
    /\ UNCHANGED <<config, now, start_date, i, motor_type, motor_id>>
    /\ UNCHANGED rt_vars

(***************************************************************************)
(* After the loops: the final commit of what is left in the buffer, then   *)
(* conn.close() and the completion message (data_seeder.py:196-211).  No   *)
(* handler is around this write: a sqlite3.Error leaves the function, and  *)
(* the transaction it was in is never committed.                           *)
(***************************************************************************)
(* FinalCommit that inserts what is left and closes without conn.commit(). *)
FinalCommitNoCommit(d, outcome) ==
    IF d.buffer # << >>
    THEN [d EXCEPT !.txn = << >>,
                   !.total = d.total + Len(d.buffer),
                   !.writes = d.writes + 1]
    ELSE d

FinalCommit(d, outcome) ==
    IF d.buffer # << >>
    THEN IF outcome = -1
         THEN [d EXCEPT !.rows = Commit(d.rows, ExecuteMany(d.txn, d.buffer, Len(d.buffer))),
                        !.txn = << >>,
                        !.total = d.total + Len(d.buffer),
                        !.writes = d.writes + 1]
         ELSE [d EXCEPT !.txn = << >>,
                        !.errors = d.errors + 1,
                        !.writes = d.writes + 1]
    ELSE d

Finish ==
    /\ pc = "motor"
    /\ i >= config.NUM_MOTORS
    /\ \E outcome \in (IF records_buffer # << >>
                       THEN WriteOutcomes(records_buffer, db_errors) ELSE {-1}) :
       LET d == FinalCommit(DbState, outcome)
       IN  /\ pc' = IF outcome = -1 \/ records_buffer = << >> THEN "done" ELSE "crashed"
           /\ records_buffer' = d.buffer
           /\ total_inserted' = d.total
           /\ db_rows' = d.rows
           /\ db_txn' = d.txn
           /\ db_errors' = d.errors
           /\ db_writes' = d.writes
    /\ UNCHANGED <<config, now, start_date, i, motor_type, motor_id, asset,
                   curr_time, step, last, emitted, twin>>
    /\ UNCHANGED rt_vars

Next == StartMotor \/ Tick \/ Finish

Spec == Init /\ [][Next]_vars

(* A run over one asset, as a process that nothing holds up: a step that   *)
(* can be taken is taken.                                                  *)
InitOneAsset == InitWith([NUM_MOTORS |-> 1, DAYS_HISTORY |-> DAYS_HISTORY], 0)

SpecFair == InitOneAsset /\ [][Next]_vars /\ WF_vars(Next)

(***************************************************************************)
(* Two runs of the script with one seed: random.seed(n) before each call   *)
(* gives both the same random numbers, and the configuration is the same.  *)
(* What the script does not take from its inputs is datetime.now() (line   *)
(* 52): the second run starts later, by a second or by an hour.            *)
(***************************************************************************)
TwinDelays == {1, 3600}

InitTwoRuns == \E delay \in TwinDelays : InitWith(DefaultConfig, delay)

SpecTwoRuns == InitTwoRuns /\ [][Next]_vars

(***************************************************************************)
(* The script run with other values at lines 11-12, valid ones and values  *)
(* that are zero or negative.  Nothing between line 31 and line 58 looks   *)
(* at them.                                                                *)
(***************************************************************************)
ConfigSamples ==
    { [NUM_MOTORS |-> n, DAYS_HISTORY |-> d] : n \in -1..1, d \in -1..1 }

InitConfig == \E cfg \in ConfigSamples : InitWith(cfg, 0)

SpecConfig == InitConfig /\ [][Next]_vars

(***************************************************************************)
(* One tick's readings, computed for every state an asset can be in when   *)
(* steps 1 and 2 of the tick are done (data_seeder.py:117-172).  With the  *)
(* script's countdowns an asset fails for up to 1080 ticks, so wear_factor *)
(* reaches 1080 * 0.008 = 8.64 and clog_factor 1080 * 0.15 = 162.0; the    *)
(* samples hold the least and the greatest value and the values that put   *)
(* a reading exactly on a threshold.  An accumulator is non-zero only for  *)
(* the fault types that feed it, and only while FAILING or REPAIRING.      *)
(***************************************************************************)
WearSamples == {20, 20000, 35000, 86400}
ClogSamples == {500, 310000, 460000, 1620000}
HourSamples == {0, 12, 18}

TickAssets ==
    {NewAsset(1)} \cup
    { [current_state      |-> st,
       steps_until_change |-> 1,
       wear_factor        |-> w,
       clog_factor        |-> c,
       current_fault_type |-> f] :
        st \in {STATE_FAILING, STATE_REPAIRING},
        f \in FaultTypes,
        w \in WearSamples \cup {0},
        c \in ClogSamples \cup {0} }

FeasibleAsset(s) ==
    \/ s.current_state = STATE_HEALTHY
    \/ /\ (s.wear_factor > 0) = (s.current_fault_type \in WearFaults)
       /\ (s.clog_factor > 0) = (s.current_fault_type \in ClogFaults)

InitRecord ==
    /\ config = DefaultConfig
    /\ pc = "record"
    /\ now \in NowSamples
    /\ start_date = MinusDays(now, DAYS_HISTORY)
    /\ twin = NewTwin(now, 0, DAYS_HISTORY)
    /\ RtIdle
    /\ i = 1
    /\ motor_type \in MotorTypes
    /\ motor_id = MotorId(1, motor_type)
    /\ asset \in {s \in TickAssets : FeasibleAsset(s)}
    /\ curr_time \in {[sec |-> h * 3600, us |-> 0] : h \in HourSamples}
    /\ step = 0
    /\ last = << >>
    /\ records_buffer = << >>
    /\ total_inserted = 0
    /\ db_rows = << >>
    /\ db_txn = << >>
    /\ db_errors = 0
    /\ db_writes = 0
    /\ emitted = << >>

EmitRecord ==
    /\ pc = "record"
    /\ LET loose == asset.current_fault_type = "LOOSE_FOOT"
           hour == HourOf(curr_time)
       IN
       \E r_amb \in AmbientNoise,
          r_load \in LoadDraws(hour),
          r_vib \in VibNoise,
          r_temp \in TempNoise,
          spike \in (IF loose THEN BOOLEAN ELSE {FALSE}) :
       \E r_spike \in (IF spike THEN SpikeSizes ELSE {0}) :
       LET p == Physics(asset, get_base_specs(motor_type), hour,
                        r_amb, r_load, r_vib, spike, r_spike, r_temp)
       IN  last' = <<[prev |-> asset.current_state, state |-> asset.current_state,
                      p |-> p, rec |-> MakeRecord(motor_id, curr_time, asset, p)]>>
    /\ pc' = "recorded"
    /\ UNCHANGED <<config, now, start_date, i, motor_type, motor_id, asset,
                   curr_time, step, records_buffer, total_inserted, db_rows,
                   db_txn, db_errors, db_writes, emitted, twin>>
    /\ UNCHANGED rt_vars

SpecRecord == InitRecord /\ [][EmitRecord]_vars

(***************************************************************************)
(* The status rule applied to two readings of one asset state, to compare  *)
(* the labels (data_seeder.py:148-155).  The readings are those around the *)
(* thresholds; a HEALTHY asset has no accumulated wear or clogging, so its *)
(* readings stay below 45.75 degrees and 3.025 mm/s.                       *)
(***************************************************************************)
TempReadings == {200000, 457500, 650000, 650001, 800000, 800001, 2000000}
VibReadings == {8500, 30250, 35000, 35001, 50000, 50001, 170000}

Readings ==
    { [state |-> st, temp_val |-> t, vib_val |-> v] :
        st \in {STATE_HEALTHY, STATE_FAILING}, t \in TempReadings, v \in VibReadings }

FeasibleReading(r) ==
    r.state = STATE_HEALTHY => (r.temp_val <= 457500 /\ r.vib_val <= 30250)

InitClassify ==
    /\ InitRecord
    /\ asset = NewAsset(1)
    /\ curr_time.sec = 0
    /\ motor_type = "PUMP"

Classify ==
    /\ pc = "record"
    /\ Len(last) < 2
    /\ \E r \in {x \in Readings : FeasibleReading(x)} :
        last' = Append(last, [state |-> r.state, temp_val |-> r.temp_val,
                              vib_val |-> r.vib_val,
                              status |-> StatusLabel(r.state, r.temp_val, r.vib_val)])
    /\ UNCHANGED <<config, pc, now, start_date, i, motor_type, motor_id, asset,
                   curr_time, step, records_buffer, total_inserted, db_rows,
                   db_txn, db_errors, db_writes, emitted, twin>>
    /\ UNCHANGED rt_vars

SpecClassify == InitClassify /\ [][Classify]_vars

(***************************************************************************)
(* MotorSimulator (modules/machines/motor.py).  Floats are fixed-point     *)
(* with four decimals, speed included (rpm * 10000); base_rpm, the speed   *)
(* noise and the class constants whose value is a whole number are plain   *)
(* integers.                                                               *)
(***************************************************************************)
TEMP_THRESHOLD_WARNING == 800000        \* 80.0
VIBRATION_THRESHOLD_WARNING == 50000    \* 5.0
SPEED_REDUCTION_STEP == 200
HEAT_RPM_MULTIPLIER == 10
HEAT_WEAR_MULTIPLIER == 5
PASSIVE_COOLING_RATE == 1500            \* 0.15
THERMAL_NOISE_MIN == -2000              \* -0.2
THERMAL_NOISE_MAX == 3000               \* 0.3
VIBRATION_WEAR_MULTIPLIER == 2
MECH_NOISE_MIN == -500                  \* -0.05
MECH_NOISE_MAX == 1000                  \* 0.1
NORMALIZATION_TEMP == 100
NORMALIZATION_VIB == 2
SPEED_NOISE_RANGE == 50
MAX_LOAD_SLIP_RPM == 20

(* One rpm in the unit of speed. *)
Rpm(n) == n * 10000

(* The product of two fixed-point numbers, a * b / 10000, rounded down;    *)
(* taken apart so that no intermediate value leaves 32 bits.               *)
FixMul(a, b) ==
    LET ah == a \div 10000
        al == a % 10000
        bh == b \div 10000
        bl == b % 10000
    IN  (ah * bh * 10000) + (ah * bl) + (al * bh) + ((al * bl) \div 10000)

(* round(x, n): to the nearest multiple of unit, ties to even. *)
RoundTo(x, unit) ==
    LET q == x \div unit
        r == x % unit
    IN  IF 2 * r < unit THEN q * unit
        ELSE IF 2 * r > unit THEN (q + 1) * unit
        ELSE IF q % 2 = 0 THEN q * unit ELSE (q + 1) * unit

(* MotorSensor.__init__ and MotorSimulator.__init__, motor.py:22-27, 76-95. *)
MotorSimulator(motor_id_, base_rpm, base_temperature, base_vibration, temp_factor, vibration_factor, degradation_rate, initial_load) ==
    [motor_id                 |-> motor_id_,
     speed                    |-> 0,
     temperature              |-> 250000,
     vibration                |-> 0,
     is_running               |-> FALSE,
     base_rpm                 |-> base_rpm,
     base_temperature         |-> base_temperature,
     base_vibration           |-> base_vibration,
     temp_factor              |-> temp_factor,
     vibration_factor         |-> vibration_factor,
     degradation_rate         |-> degradation_rate,
     current_load             |-> initial_load,
     degradation_accumulated  |-> 0,
     cycle_count              |-> 0]

(* The constructor with its defaults for what the caller leaves out:       *)
(* base_temperature 45.0, base_vibration 0.5, temp_factor 0.02,            *)
(* vibration_factor 0.01, degradation_rate 0.0005.                         *)
MotorWithDefaults(motor_id_, base_rpm, initial_load) ==
    MotorSimulator(motor_id_, base_rpm, 450000, 5000, 200, 100, 5, initial_load)

(* motor.py:97-102 *)
start(m) ==
    [m EXCEPT !.is_running = TRUE,
              !.speed = Rpm(m.base_rpm),
              !.temperature = m.base_temperature,
              !.vibration = m.base_vibration]

(* stop that clears the flag and leaves the speed. *)
StopKeepsSpeed(m) == [m EXCEPT !.is_running = FALSE]

(* motor.py:104-107 *)
stop(m) == [m EXCEPT !.is_running = FALSE, !.speed = 0]

(* motor.py:109-112 *)
set_load(m, load_percentage) ==
    [m EXCEPT !.current_load = Max(0, Min(10000, load_percentage))]

(* motor.py:160-173: two tests, one after the other, each with its own step. *)
check_safety_thresholds(m) ==
    LET m1 == IF m.temperature > TEMP_THRESHOLD_WARNING
              THEN [m EXCEPT !.speed = Max(0, m.speed - Rpm(SPEED_REDUCTION_STEP))]
              ELSE m
    IN  IF m1.vibration > VIBRATION_THRESHOLD_WARNING
        THEN [m1 EXCEPT !.speed = Max(0, m1.speed - Rpm(SPEED_REDUCTION_STEP))]
        ELSE m1

(* target_speed of motor.py:126-128. *)
TargetSpeed(m, speed_noise) ==
    (Rpm(m.base_rpm) - (m.current_load * MAX_LOAD_SLIP_RPM)) + Rpm(speed_noise)

(* simulate_cycle that takes the speed it finds, throttled or not, as the  *)
(* speed to start from.                                                    *)
SimulateCycleFromSpeed(m, speed_noise, thermal_noise, mech_noise) ==
    IF ~m.is_running THEN m
    ELSE
    LET stress_factor ==
            FixMul(FixMul(m.temperature \div NORMALIZATION_TEMP,
                          m.vibration \div NORMALIZATION_VIB),
                   10000 + m.current_load)
        current_degradation == FixMul(m.degradation_rate, 10000 + stress_factor)
        degradation == m.degradation_accumulated + current_degradation
        speed_ratio == m.speed \div m.base_rpm
        heat_from_rpm ==
            FixMul(FixMul(speed_ratio, m.temp_factor * HEAT_RPM_MULTIPLIER),
                   m.current_load)
        heat_from_wear == degradation * HEAT_WEAR_MULTIPLIER
        vibration_from_rpm ==
            FixMul(FixMul(speed_ratio, m.vibration_factor), m.current_load)
        vibration_from_wear == degradation * VIBRATION_WEAR_MULTIPLIER
    IN  check_safety_thresholds(
            [m EXCEPT
                !.cycle_count = m.cycle_count + 1,
                !.degradation_accumulated = degradation,
                !.temperature = m.temperature + heat_from_rpm + heat_from_wear
                                + thermal_noise - PASSIVE_COOLING_RATE,
                !.vibration = m.base_vibration + vibration_from_rpm
                              + vibration_from_wear + mech_noise,
                !.speed = Max(0, (m.speed - (m.current_load * MAX_LOAD_SLIP_RPM))
                                 + Rpm(speed_noise))])

(* motor.py:114-158.  The three draws are the caller's. *)
simulate_cycle(m, speed_noise, thermal_noise, mech_noise) ==
    IF ~m.is_running THEN m
    ELSE
    LET stress_factor ==
            FixMul(FixMul(m.temperature \div NORMALIZATION_TEMP,
                          m.vibration \div NORMALIZATION_VIB),
                   10000 + m.current_load)
        current_degradation == FixMul(m.degradation_rate, 10000 + stress_factor)
        degradation == m.degradation_accumulated + current_degradation
        speed_ratio == m.speed \div m.base_rpm
        heat_from_rpm ==
            FixMul(FixMul(speed_ratio, m.temp_factor * HEAT_RPM_MULTIPLIER),
                   m.current_load)
        heat_from_wear == degradation * HEAT_WEAR_MULTIPLIER
        vibration_from_rpm ==
            FixMul(FixMul(speed_ratio, m.vibration_factor), m.current_load)
        vibration_from_wear == degradation * VIBRATION_WEAR_MULTIPLIER
    IN  check_safety_thresholds(
            [m EXCEPT
                !.cycle_count = m.cycle_count + 1,
                !.degradation_accumulated = degradation,
                !.temperature = m.temperature + heat_from_rpm + heat_from_wear
                                + thermal_noise - PASSIVE_COOLING_RATE,
                !.vibration = m.base_vibration + vibration_from_rpm
                              + vibration_from_wear + mech_noise,
                !.speed = Max(0, TargetSpeed(m, speed_noise))])

(* perform_maintenance without the test of the running flag. *)
PerformMaintenanceUnguarded(m) ==
    [m EXCEPT !.degradation_accumulated = 0,
              !.temperature = m.base_temperature,
              !.vibration = m.base_vibration]

(* motor.py:175-185 *)
perform_maintenance(m) ==
    IF m.is_running THEN m
    ELSE [m EXCEPT !.degradation_accumulated = 0,
                   !.temperature = m.base_temperature,
                   !.vibration = m.base_vibration]

(* The dict get_telemetry returns (motor.py:192-201) for the motor as the  *)
(* cycle left it; t is datetime.now().                                     *)
TelemetryOf(m, t) ==
    [motor_id          |-> m.motor_id,
     timestamp         |-> t,
     status            |-> IF m.is_running THEN "RUNNING" ELSE "STOPPED",
     load_pct          |-> RoundTo(m.current_load * 100, 1000),
     speed_rpm         |-> m.speed \div 10000,
     temperature_c     |-> RoundTo(m.temperature, 100),
     vibration_mm_s    |-> RoundTo(m.vibration, 10),
     degradation_level |-> RoundTo(m.degradation_accumulated, 1)]

(* get_telemetry that advances the physics twice for one reading. *)
GetTelemetryTwoCycles(m, t, speed_noise, thermal_noise, mech_noise) ==
    LET m1 == simulate_cycle(m, speed_noise, thermal_noise, mech_noise)
        m2 == simulate_cycle(m1, speed_noise, thermal_noise, mech_noise)
    IN  [motor |-> m2, telemetry_packet |-> TelemetryOf(m2, t)]

(* get_telemetry (motor.py:187-201): the cycle, then the dict. *)
get_telemetry(m, t, speed_noise, thermal_noise, mech_noise) ==
    LET m1 == simulate_cycle(m, speed_noise, thermal_noise, mech_noise)
    IN  [motor |-> m1, telemetry_packet |-> TelemetryOf(m1, t)]

(* The draws of a cycle: random.randint(-50, 50) and the two               *)
(* random.uniform; and the same for a run, from the middle.                *)
SpeedNoise == {-SPEED_NOISE_RANGE, SPEED_NOISE_RANGE}
ThermalNoise == UniformEnds(THERMAL_NOISE_MIN, THERMAL_NOISE_MAX)
MechNoise == UniformEnds(MECH_NOISE_MIN, MECH_NOISE_MAX)
RunSpeedNoise == {0}
RunThermalNoise == UniformMid(THERMAL_NOISE_MIN, THERMAL_NOISE_MAX)
RunMechNoise == UniformMid(MECH_NOISE_MIN, MECH_NOISE_MAX)

(***************************************************************************)
(* DatabaseHandler (modules/data/database_handler.py).  The outcomes are   *)
(* the environment's: "ok", or which call raised sqlite3.Error.            *)
(***************************************************************************)
(* connect, database_handler.py:38-50: sqlite3.connect may raise before    *)
(* anything is assigned, _create_table after connection and cursor are.    *)
connect(d, outcome) ==
    IF outcome = "connect_error" THEN d
    ELSE IF outcome = "create_error"
    THEN [d EXCEPT !.connection = "open", !.cursor = "cursor"]
    ELSE [d EXCEPT !.connection = "open", !.cursor = "cursor", !.table = TRUE]

(* save_reading, database_handler.py:71-104.  The handler catches          *)
(* sqlite3.Error alone: with no cursor, self.cursor.execute raises         *)
(* AttributeError, which leaves the method.  An insert into a table that   *)
(* does not exist raises sqlite3.Error; a commit that raises leaves the    *)
(* row in the open transaction.                                            *)
save_reading(d, data, connect_outcome, insert_outcome) ==
    LET d1 == IF d.connection = None THEN connect(d, connect_outcome) ELSE d
    IN  IF d1.cursor = None
        THEN [db |-> d1, raised |-> "AttributeError"]
        ELSE IF ~d1.table \/ insert_outcome = "execute_error"
        THEN [db |-> d1, raised |-> None]
        ELSE IF insert_outcome = "commit_error"
        THEN [db |-> [d1 EXCEPT !.txn = Append(d1.txn, data)], raised |-> None]
        ELSE [db |-> [d1 EXCEPT !.rows = d1.rows \o d1.txn \o <<data>>,
                                !.txn = << >>],
              raised |-> None]

(* get_recent_readings, database_handler.py:106-127, as far as it changes  *)
(* the handler: it connects if there is no cursor.                         *)
get_recent_readings(d, connect_outcome) ==
    IF d.cursor = None THEN connect(d, connect_outcome) ELSE d

(* close as a handler that keeps its connection would be. *)
CloseLeavesOpen(d) == d

(* close, database_handler.py:129-132: what was not committed is lost. *)
close(d) ==
    IF d.connection # None
    THEN [d EXCEPT !.connection = "closed", !.txn = << >>]
    ELSE d

ConnectOutcomes(d, errors) ==
    IF d.connection # None THEN {"ok"}
    ELSE {"ok"} \cup (IF errors < MaxDbErrors
                      THEN {"connect_error", "create_error"} ELSE {})

InsertOutcomes(errors) ==
    {"ok"} \cup (IF errors < MaxDbErrors
                 THEN {"execute_error", "commit_error"} ELSE {})

Failed(outcome) == IF outcome = "ok" THEN 0 ELSE 1

(***************************************************************************)
(* run_simulation (scripts/realtime_simulation.py:15-99).                  *)
(***************************************************************************)
cycles_to_run == 10

(* Lines 23-41: the handler and the two assets; ix is the asset the loop   *)
(* of line 54 starts at.                                                   *)
RtStart(ix) ==
    /\ BulkStart(DefaultConfig, 0)
    /\ assets = <<MotorWithDefaults("MTR-01-CONVEYOR", 1750, 8000),
                  MotorWithDefaults("MTR-02-FAN", 3500, 9500)>>
    /\ rt_pc = "start"
    /\ cycle = 0
    /\ asset_ix = ix
    /\ db = DatabaseHandler
    /\ packet = << >>
    /\ target_speed = << >>
    /\ calls = << >>
    /\ rt_errors = 0
    /\ ended_by = None
    /\ wall = 0

InitRealtime == RtStart(1)

(* for i in range(cycles_to_run): where the loop of line 53 goes next. *)
LoopHead(n) == IF n < cycles_to_run THEN "generate" ELSE "stop"

(* Lines 45-47. *)
StartSequence ==
    /\ rt_pc = "start"
    /\ assets' = [k \in DOMAIN assets |-> start(assets[k])]
    /\ rt_pc' = LoopHead(0)
    /\ UNCHANGED <<cycle, asset_ix, db, packet, target_speed, calls, rt_errors,
                   ended_by, wall>>
    /\ UNCHANGED bulk_vars

(* Line 56: telemetry_packet = asset.get_telemetry(). *)
Generate ==
    /\ rt_pc = "generate"
    /\ \E speed_noise \in RunSpeedNoise,
          thermal_noise \in RunThermalNoise,
          mech_noise \in RunMechNoise :
       LET m == assets[asset_ix]
           r == get_telemetry(m, wall, speed_noise, thermal_noise, mech_noise)
       IN  /\ assets' = [assets EXCEPT ![asset_ix] = r.motor]
           /\ packet' = <<r.telemetry_packet>>
           /\ target_speed' = IF m.is_running
                              THEN <<TargetSpeed(m, speed_noise)>> ELSE << >>
    /\ calls' = Append(calls, <<"get_telemetry", asset_ix>>)
    /\ wall' = wall + 1
    /\ rt_pc' = "persist"
    /\ UNCHANGED <<cycle, asset_ix, db, rt_errors, ended_by>>
    /\ UNCHANGED bulk_vars

(* Line 59: db.save_reading(telemetry_packet), and the step of the loop of *)
(* line 54.  An exception that is not KeyboardInterrupt goes to line 95.   *)
Persist ==
    /\ rt_pc = "persist"
    /\ \E connect_outcome \in ConnectOutcomes(db, rt_errors) :
       \E insert_outcome \in InsertOutcomes(rt_errors + Failed(connect_outcome)) :
       LET r == save_reading(db, packet[1], connect_outcome, insert_outcome)
           inserted == r.raised = None /\ r.db.table
       IN  /\ db' = r.db
           /\ rt_errors' = rt_errors + Failed(connect_outcome)
                           + (IF inserted THEN Failed(insert_outcome) ELSE 0)
           /\ IF r.raised # None
              THEN /\ rt_pc' = "finally"
                   /\ ended_by' = "Exception"
                   /\ UNCHANGED asset_ix
              ELSE /\ rt_pc' = IF asset_ix < Len(assets) THEN "generate" ELSE "sleep"
                   /\ asset_ix' = IF asset_ix < Len(assets) THEN asset_ix + 1 ELSE 1
                   /\ UNCHANGED ended_by
    /\ calls' = Append(calls, <<"save_reading", asset_ix>>)
    /\ UNCHANGED <<assets, cycle, packet, target_speed, wall>>
    /\ UNCHANGED bulk_vars

(* Line 62: time.sleep(0.5), and the step of the loop of line 53. *)
Sleep ==
    /\ rt_pc = "sleep"
    /\ wall' = wall + 500
    /\ cycle' = cycle + 1
    /\ rt_pc' = LoopHead(cycle + 1)
    /\ UNCHANGED <<assets, asset_ix, db, packet, target_speed, calls, rt_errors,
                   ended_by>>
    /\ UNCHANGED bulk_vars

(* Lines 65-67. *)
StopSequence ==
    /\ rt_pc = "stop"
    /\ assets' = [k \in DOMAIN assets |-> stop(assets[k])]
    /\ rt_pc' = "verify"
    /\ UNCHANGED <<cycle, asset_ix, db, packet, target_speed, calls, rt_errors,
                   ended_by, wall>>
    /\ UNCHANGED bulk_vars

(* Lines 69-91: the rows read back and logged; then the try block is left. *)
Verify ==
    /\ rt_pc = "verify"
    /\ \E connect_outcome \in ConnectOutcomes(db, rt_errors) :
        /\ db' = get_recent_readings(db, connect_outcome)
        /\ rt_errors' = rt_errors
                        + (IF db.cursor = None THEN Failed(connect_outcome) ELSE 0)
    /\ rt_pc' = "finally"
    /\ ended_by' = "completed"
    /\ UNCHANGED <<assets, cycle, asset_ix, packet, target_speed, calls, wall>>
    /\ UNCHANGED bulk_vars

(* Lines 93-94: Ctrl-C while the try block runs. *)
KeyboardInterrupt ==
    /\ rt_pc \in {"start", "generate", "persist", "sleep", "stop", "verify"}
    /\ rt_pc' = "finally"
    /\ ended_by' = "KeyboardInterrupt"
    /\ UNCHANGED <<assets, cycle, asset_ix, db, packet, target_speed, calls,
                   rt_errors, wall>>
    /\ UNCHANGED bulk_vars

(* Lines 97-99: finally. *)
Close ==
    /\ rt_pc = "finally"
    /\ db' = close(db)
    /\ rt_pc' = "finished"
    /\ UNCHANGED <<assets, cycle, asset_ix, packet, target_speed, calls, rt_errors,
                   ended_by, wall>>
    /\ UNCHANGED bulk_vars

NextRealtime ==
    \/ StartSequence
    \/ Generate
    \/ Persist
    \/ Sleep
    \/ StopSequence
    \/ Verify
    \/ KeyboardInterrupt
    \/ Close

SpecRealtime == InitRealtime /\ [][NextRealtime]_vars

(***************************************************************************)
(* One MotorSimulator and its callers' operations, in any order: the       *)
(* constructor's arguments and the argument of set_load are sampled, and   *)
(* the motor simulates at most MaxCycles cycles.                           *)
(***************************************************************************)
MaxCycles == 2

InitialLoads == {-2000, 8000, 15000}
LoadArguments == {-5000, 5000, 20000}
BaseRpms == {300, 1800}
BaseTemperatures == {450000, 850000}
BaseVibrations == {5000, 60000}

InitMotor ==
    /\ BulkStart(DefaultConfig, 0)
    /\ \E base_rpm \in BaseRpms, base_temperature \in BaseTemperatures,
          base_vibration \in BaseVibrations, initial_load \in InitialLoads :
        assets = <<MotorSimulator("TEST-SIM-01", base_rpm, base_temperature,
                                  base_vibration, 200, 100, 5, initial_load)>>
    /\ rt_pc = "api"
    /\ cycle = 0
    /\ asset_ix = 1
    /\ db = DatabaseHandler
    /\ packet = << >>
    /\ target_speed = << >>
    /\ calls = << >>
    /\ rt_errors = 0
    /\ ended_by = None
    /\ wall = 0

MotorStart ==
    /\ rt_pc = "api"
    /\ assets' = [assets EXCEPT ![1] = start(assets[1])]
    /\ target_speed' = << >>
    /\ UNCHANGED <<rt_pc, cycle, asset_ix, db, packet, calls, rt_errors, ended_by,
                   wall>>
    /\ UNCHANGED bulk_vars

MotorStop ==
    /\ rt_pc = "api"
    /\ assets' = [assets EXCEPT ![1] = stop(assets[1])]
    /\ target_speed' = << >>
    /\ UNCHANGED <<rt_pc, cycle, asset_ix, db, packet, calls, rt_errors, ended_by,
                   wall>>
    /\ UNCHANGED bulk_vars

MotorSetLoad ==
    /\ rt_pc = "api"
    /\ \E load_percentage \in LoadArguments :
        assets' = [assets EXCEPT ![1] = set_load(assets[1], load_percentage)]
    /\ UNCHANGED <<rt_pc, cycle, asset_ix, db, packet, target_speed, calls,
                   rt_errors, ended_by, wall>>
    /\ UNCHANGED bulk_vars

MotorSimulateCycle ==
    /\ rt_pc = "api"
    /\ assets[1].cycle_count < MaxCycles
    /\ \E speed_noise \in SpeedNoise,
          thermal_noise \in RunThermalNoise,
          mech_noise \in RunMechNoise :
        /\ assets' = [assets EXCEPT
                        ![1] = simulate_cycle(assets[1], speed_noise,
                                              thermal_noise, mech_noise)]
        /\ target_speed' = IF assets[1].is_running
                           THEN <<TargetSpeed(assets[1], speed_noise)>>
                           ELSE target_speed
    /\ UNCHANGED <<rt_pc, cycle, asset_ix, db, packet, calls, rt_errors, ended_by,
                   wall>>
    /\ UNCHANGED bulk_vars

MotorGetTelemetry ==
    /\ rt_pc = "api"
    /\ assets[1].cycle_count < MaxCycles
    /\ \E speed_noise \in SpeedNoise,
          thermal_noise \in RunThermalNoise,
          mech_noise \in RunMechNoise :
       LET r == get_telemetry(assets[1], wall, speed_noise, thermal_noise, mech_noise)
       IN  /\ assets' = [assets EXCEPT ![1] = r.motor]
           /\ packet' = <<r.telemetry_packet>>
           /\ target_speed' = IF assets[1].is_running
                              THEN <<TargetSpeed(assets[1], speed_noise)>>
                              ELSE target_speed
    /\ UNCHANGED <<rt_pc, cycle, asset_ix, db, calls, rt_errors, ended_by, wall>>
    /\ UNCHANGED bulk_vars

MotorPerformMaintenance ==
    /\ rt_pc = "api"
    /\ assets' = [assets EXCEPT ![1] = perform_maintenance(assets[1])]
    /\ UNCHANGED <<rt_pc, cycle, asset_ix, db, packet, target_speed, calls,
                   rt_errors, ended_by, wall>>
    /\ UNCHANGED bulk_vars

NextMotor ==
    \/ MotorStart
    \/ MotorStop
    \/ MotorSetLoad
    \/ MotorSimulateCycle
    \/ MotorGetTelemetry
    \/ MotorPerformMaintenance

SpecMotor == InitMotor /\ [][NextMotor]_vars

(***************************************************************************)
(* One motor of run_simulation, started and then read for a long time:     *)
(* MaxLongRunCycles calls of get_telemetry.                                *)
(***************************************************************************)
MaxLongRunCycles == 680

InitLongRun == \E ix \in 1..2 : RtStart(ix)

LongRunStart ==
    /\ rt_pc = "start"
    /\ assets' = [assets EXCEPT ![asset_ix] = start(assets[asset_ix])]
    /\ rt_pc' = "generate"
    /\ UNCHANGED <<cycle, asset_ix, db, packet, target_speed, calls, rt_errors,
                   ended_by, wall>>
    /\ UNCHANGED bulk_vars

LongRunCycle ==
    /\ rt_pc = "generate"
    /\ assets[asset_ix].cycle_count < MaxLongRunCycles
    /\ \E speed_noise \in RunSpeedNoise,
          thermal_noise \in RunThermalNoise,
          mech_noise \in RunMechNoise :
       LET m == assets[asset_ix]
           r == get_telemetry(m, wall, speed_noise, thermal_noise, mech_noise)
       IN  /\ assets' = [assets EXCEPT ![asset_ix] = r.motor]
           /\ packet' = <<r.telemetry_packet>>
           /\ target_speed' = <<TargetSpeed(m, speed_noise)>>
    /\ wall' = wall + 500
    /\ UNCHANGED <<rt_pc, cycle, asset_ix, db, calls, rt_errors, ended_by>>
    /\ UNCHANGED bulk_vars

SpecLongRun == InitLongRun /\ [][LongRunStart \/ LongRunCycle]_vars

(***************************************************************************)
(* The lifecycle countdown with the numbers the script has, for the length *)
(* of a phase in simulated time: the tick of line 13 and the randint       *)
(* arguments of lines 92, 98 and 108.  A phase is entered with a countdown *)
(* drawn from the range of the state that was left (both ends are tried)   *)
(* and step 1 of the tick (data_seeder.py:84-108) runs until the state is  *)
(* left again; step counts the ticks the asset has spent in the phase.     *)
(***************************************************************************)
SourceIntervalMinutes == 60

(* The randint arguments of the transition that leaves state. *)
SourceCountdown(state) ==
    IF state = STATE_HEALTHY THEN <<216, 1080>>
    ELSE IF state = STATE_FAILING THEN <<12, 36>>
    ELSE <<1440, 4320>>

(* The state the cycle enters state from. *)
StateBefore(state) ==
    IF state = STATE_FAILING THEN STATE_HEALTHY
    ELSE IF state = STATE_REPAIRING THEN STATE_FAILING
    ELSE STATE_REPAIRING

(* The asset on the tick that takes it out of state. *)
Leaving(state, fault) ==
    [current_state      |-> state,
     steps_until_change |-> 1,
     wear_factor        |-> 0,
     clog_factor        |-> 0,
     current_fault_type |-> IF state = STATE_HEALTHY THEN None ELSE fault]

InitPhase ==
    /\ config = DefaultConfig
    /\ pc = "phase"
    /\ now \in NowSamples
    /\ start_date = MinusDays(now, DAYS_HISTORY)
    /\ twin = NewTwin(now, 0, DAYS_HISTORY)
    /\ RtIdle
    /\ i = 1
    /\ motor_type = "PUMP"
    /\ motor_id = MotorId(1, motor_type)
    /\ \E state \in {STATE_HEALTHY, STATE_FAILING, STATE_REPAIRING},
          r_fault \in FaultTypes :
       \E r_steps \in {SourceCountdown(StateBefore(state))[1],
                       SourceCountdown(StateBefore(state))[2]} :
          asset = Transition(Leaving(StateBefore(state), r_fault), r_fault, r_steps)
    /\ curr_time = start_date
    /\ step = 1
    /\ last = << >>
    /\ records_buffer = << >>
    /\ total_inserted = 0
    /\ db_rows = << >>
    /\ db_txn = << >>
    /\ db_errors = 0
    /\ db_writes = 0
    /\ emitted = << >>

(* Step 1 of one more tick.  On the tick that leaves the phase the asset   *)
(* is kept as the phase had it, and step is the number of ticks it lasted. *)
PhaseTick ==
    /\ pc = "phase"
    /\ LET s1 == Transition(asset, asset.current_fault_type, 1)
       IN  IF s1.current_state = asset.current_state
           THEN /\ asset' = s1
                /\ step' = step + 1
                /\ curr_time' = PlusMinutes(curr_time, SourceIntervalMinutes)
                /\ pc' = "phase"
           ELSE /\ pc' = "phase_end"
                /\ UNCHANGED <<asset, step, curr_time>>
    /\ UNCHANGED <<config, now, start_date, i, motor_type, motor_id, last,
                   records_buffer, total_inserted, db_rows, db_txn, db_errors,
                   db_writes, emitted, twin>>
    /\ UNCHANGED rt_vars

SpecPhase == InitPhase /\ [][PhaseTick]_vars

(***************************************************************************)
(* Properties.                                                             *)
(***************************************************************************)

(* The last tick is a tick of the asset the state variables describe. *)
LastIsCurrent == last # << >> /\ step >= 1

(* C1: every record of a bulk tick, in every lifecycle state, has a load   *)
(* fraction in [0,1] (load_pct in [0,100]), speed_rpm >= 0 and             *)
(* degradation_level in [0,100].                                           *)
C1_RecordsInRange ==
    \A k \in DOMAIN last :
        /\ last[k].p.base_load >= 0 /\ last[k].p.base_load <= 10000
        /\ last[k].rec.load_pct >= 0 /\ last[k].rec.load_pct <= 1000000
        /\ last[k].rec.speed_rpm >= 0
        /\ last[k].rec.degradation_level >= 0
        /\ last[k].rec.degradation_level <= 1000000

(* A FAILING tick whose accumulators put wear*15 + clog*2 above 100. *)
C1_Witness ==
    /\ last # << >>
    /\ last[1].state = STATE_FAILING
    /\ (asset.wear_factor * 15) + (asset.clog_factor * 2) > 1000000
    /\ last[1].rec.degradation_level = 1000000
    /\ last[1].rec.load_pct = 950000

(* C2: a record of a tick whose state is REPAIRING has load 0, speed 0,    *)
(* vibration 0 and status MAINTENANCE, whatever the accumulators and the   *)
(* fault type.                                                             *)
C2_RepairingIsStopped ==
    \A k \in DOMAIN last :
        last[k].state = STATE_REPAIRING =>
            /\ last[k].p.base_load = 0
            /\ last[k].rec.load_pct = 0
            /\ last[k].rec.speed_rpm = 0
            /\ last[k].p.vib_val = 0
            /\ last[k].rec.vibration_mm_s = 0
            /\ last[k].rec.status = "MAINTENANCE"

(* A REPAIRING tick of an asset with both accumulators at their greatest. *)
C2_Witness ==
    /\ last # << >>
    /\ last[1].state = STATE_REPAIRING
    /\ asset.current_fault_type = "MULTI"
    /\ asset.wear_factor = 86400
    /\ asset.clog_factor = 1620000
    /\ last[1].rec.status = "MAINTENANCE"

(* C3: a tick that takes an asset from HEALTHY to FAILING sets the fault   *)
(* type to one of the four; a tick that takes it from REPAIRING to HEALTHY *)
(* leaves wear and clog at 0 and the fault type cleared.                   *)
C3_TransitionEffects ==
    [][pc = "step" =>
        /\ (asset.current_state = STATE_HEALTHY /\ asset'.current_state = STATE_FAILING)
            => asset'.current_fault_type \in
                   {"BEARING_WEAR", "COOLING_FAIL", "LOOSE_FOOT", "MULTI"}
        /\ (asset.current_state = STATE_REPAIRING /\ asset'.current_state = STATE_HEALTHY)
            => /\ asset'.wear_factor = 0
               /\ asset'.clog_factor = 0
               /\ asset'.current_fault_type = None]_vars

(* The tick that ends a repair: the asset failed and was repaired before. *)
C3_Witness ==
    /\ LastIsCurrent
    /\ last[1].prev = STATE_REPAIRING
    /\ last[1].state = STATE_HEALTHY
    /\ asset.wear_factor = 0 /\ asset.clog_factor = 0
    /\ asset.current_fault_type = None

(* C4: the status is MAINTENANCE if the state is REPAIRING; otherwise      *)
(* CRITICAL if temperature > 80 or vibration > 5.0; otherwise WARNING if   *)
(* temperature > 65 or vibration > 3.5; otherwise NORMAL.  The comparisons *)
(* are strict: a reading on a threshold takes the lower label.             *)
C4_StatusByPriority ==
    \A k \in DOMAIN last :
        LET st   == last[k].state
            t    == last[k].p.temp_val
            v    == last[k].p.vib_val
            lbl  == last[k].rec.status
            crit == t > 800000 \/ v > 50000
            warn == t > 650000 \/ v > 35000
        IN  /\ (lbl = "MAINTENANCE") = (st = STATE_REPAIRING)
            /\ (lbl = "CRITICAL") = (st # STATE_REPAIRING /\ crit)
            /\ (lbl = "WARNING") = (st # STATE_REPAIRING /\ ~crit /\ warn)
            /\ (lbl = "NORMAL") = (st # STATE_REPAIRING /\ ~crit /\ ~warn)

(* A reading of exactly 80.0 degrees with low vibration, labelled WARNING. *)
C4_Witness ==
    /\ last # << >>
    /\ last[1].state = STATE_FAILING
    /\ last[1].p.temp_val = 800000
    /\ last[1].p.vib_val <= 35000
    /\ last[1].rec.status = "WARNING"

Severity(label) ==
    IF label = "NORMAL" THEN 0 ELSE IF label = "WARNING" THEN 1
    ELSE IF label = "CRITICAL" THEN 2 ELSE -1

(* C5: for one state that is not REPAIRING and two readings, the second    *)
(* at least as hot and vibrating at least as much as the first, the        *)
(* second's status is at least as severe (NORMAL < WARNING < CRITICAL).    *)
C5_StatusMonotonic ==
    \A a \in DOMAIN last, b \in DOMAIN last :
        (/\ last[a].state = last[b].state
         /\ last[a].state # STATE_REPAIRING
         /\ last[a].temp_val <= last[b].temp_val
         /\ last[a].vib_val <= last[b].vib_val)
        => /\ Severity(last[a].status) >= 0
           /\ Severity(last[a].status) <= Severity(last[b].status)

(* A NORMAL reading and a hotter one, past the critical threshold. *)
C5_Witness ==
    /\ Len(last) = 2
    /\ last[1].state = STATE_FAILING /\ last[2].state = STATE_FAILING
    /\ last[1].temp_val = 650000 /\ last[2].temp_val = 800001
    /\ last[1].vib_val = 35000 /\ last[2].vib_val = 35000
    /\ last[1].status = "NORMAL" /\ last[2].status = "CRITICAL"

(* C6: the accumulators change only on a tick whose state is FAILING,      *)
(* where they do not decrease, and on the tick from REPAIRING to HEALTHY,  *)
(* where they become 0; on every tick whose state is HEALTHY both          *)
(* accumulators and the reported degradation_level are 0.                  *)
C6_AccumulatorsOnlyWhileFailing ==
    /\ [][pc = "step" =>
           ((asset'.wear_factor # asset.wear_factor
                \/ asset'.clog_factor # asset.clog_factor)
            => \/ /\ asset'.current_state = STATE_FAILING
                  /\ asset'.wear_factor >= asset.wear_factor
                  /\ asset'.clog_factor >= asset.clog_factor
               \/ /\ asset.current_state = STATE_REPAIRING
                  /\ asset'.current_state = STATE_HEALTHY
                  /\ asset'.wear_factor = 0
                  /\ asset'.clog_factor = 0)]_vars
    /\ [](\A k \in DOMAIN last :
             last[k].state = STATE_HEALTHY =>
                 /\ last[k].rec.degradation_level = 0
                 /\ LastIsCurrent => (asset.wear_factor = 0 /\ asset.clog_factor = 0))

(* A HEALTHY tick after the first healthy phase is over, so after a repair. *)
C6_Witness ==
    /\ LastIsCurrent
    /\ step > HealthyInitMax + 1
    /\ last[1].prev = STATE_HEALTHY
    /\ last[1].state = STATE_HEALTHY
    /\ last[1].rec.degradation_level = 0

(* C7: on a tick whose state is FAILING the fault type decides which       *)
(* accumulator grows: COOLING_FAIL the clog accumulator alone,             *)
(* BEARING_WEAR and LOOSE_FOOT the wear accumulator alone, MULTI both; and *)
(* what grows grows strictly.                                              *)
C7_FaultTypeDecidesGrowth ==
    [][(pc = "step" /\ asset'.current_state = STATE_FAILING) =>
        LET f  == asset'.current_fault_type
            dw == asset'.wear_factor - asset.wear_factor
            dc == asset'.clog_factor - asset.clog_factor
        IN  /\ f = "COOLING_FAIL" => (dc > 0 /\ dw = 0)
            /\ f \in {"BEARING_WEAR", "LOOSE_FOOT"} => (dw > 0 /\ dc = 0)
            /\ f = "MULTI" => (dw > 0 /\ dc > 0)
            /\ f \in {"COOLING_FAIL", "BEARING_WEAR", "LOOSE_FOOT", "MULTI"}]_vars

(* The second FAILING tick in a row of an asset whose cooling failed. *)
C7_Witness ==
    /\ LastIsCurrent
    /\ last[1].prev = STATE_FAILING
    /\ last[1].state = STATE_FAILING
    /\ asset.current_fault_type = "COOLING_FAIL"
    /\ asset.clog_factor >= 1000
    /\ asset.wear_factor = 0

(* C8: every asset gets DAYS_HISTORY*24*60/INTERVAL_MINUTES records; the   *)
(* first carries the start instant (now - DAYS_HISTORY days, as the        *)
(* timestamp column writes it: to the second), every later one is          *)
(* INTERVAL_MINUTES after the one before, and every asset starts again     *)
(* from the start instant.                                                 *)
C8_RecordCountAndTimestamps ==
    LET n  == (DAYS_HISTORY * 24 * 60) \div INTERVAL_MINUTES
        t0 == now.sec - (DAYS_HISTORY * 24 * 60 * 60)
    IN  /\ step <= n
        /\ Len(emitted) = IF i = 0 THEN 0 ELSE ((i - 1) * n) + step
        /\ (pc = "motor" /\ i >= 1) => step = n
        /\ pc \in {"done", "crashed"} => Len(emitted) = NUM_MOTORS * n
        /\ \A k \in DOMAIN emitted :
               emitted[k] = << ((k - 1) \div n) + 1,
                               t0 + (((k - 1) % n) * INTERVAL_MINUTES * 60) >>

(* Both assets are done: the second one's first record is at the start instant. *)
C8_Witness ==
    LET n == (DAYS_HISTORY * 24 * 60) \div INTERVAL_MINUTES
    IN  /\ pc = "motor"
        /\ i = NUM_MOTORS
        /\ NUM_MOTORS >= 2
        /\ Len(emitted) = NUM_MOTORS * n
        /\ emitted[n + 1] = <<2, now.sec - (DAYS_HISTORY * 24 * 60 * 60)>>
        /\ emitted[n][2] - emitted[1][2] = (n - 1) * INTERVAL_MINUTES * 60

(* C9: once a batch write has failed the run halts: no further tick is     *)
(* simulated, no further write is attempted, and the run does not report   *)
(* that it completed.                                                      *)
C9_HaltsOnFlushFailure ==
    [][db_errors > 0 =>
        /\ Len(emitted') = Len(emitted)
        /\ db_writes' = db_writes
        /\ pc' # "done"]_vars

(* C10: the committed rows are a duplicate-free prefix of the emitted      *)
(* rows that ends where a batch was written; a failed write commits none   *)
(* of its batch and adds nothing to total_inserted; total_inserted counts  *)
(* the committed rows; every emitted row that is not committed is still in *)
(* the buffer.                                                             *)
C10_CommittedIsPrefix ==
    /\ [](/\ Len(db_rows) <= Len(emitted)
          /\ \A k \in DOMAIN db_rows : db_rows[k] = emitted[k]
          /\ \A j \in DOMAIN db_rows, k \in DOMAIN db_rows :
                 j # k => db_rows[j] # db_rows[k]
          /\ total_inserted = Len(db_rows)
          /\ Len(db_rows) = 0 \/ Len(db_rows) >= BATCH_SIZE \/ pc = "done"
          /\ pc # "done" => db_rows \o records_buffer = emitted
          /\ pc = "done" => db_rows = emitted)
    /\ [][db_errors' > db_errors =>
            (db_rows' = db_rows /\ total_inserted' = total_inserted)]_vars

(* A batch that failed was written whole by the next tick's retry. *)
C10_Witness ==
    /\ db_errors = 1
    /\ Len(db_rows) = BATCH_SIZE + 1
    /\ total_inserted = BATCH_SIZE + 1
    /\ records_buffer = << >>

(* C11: at the end of every tick fewer than BATCH_SIZE records are         *)
(* buffered and not yet committed, also after a write that failed.         *)
C11_BufferBelowBatchSize ==
    Len(records_buffer) < BATCH_SIZE

(* C12: records are handed to storage in the order they are generated,     *)
(* ascending asset index and, within an asset, ascending timestamp; a      *)
(* batch may hold the end of one asset and the start of the next, in that  *)
(* order; and every asset starts from a fresh state: HEALTHY, a newly      *)
(* drawn countdown, accumulators 0, no fault type, the clock at the start  *)
(* instant, whatever state the asset before it ended in.                   *)
C12_DeterministicOrder ==
    /\ [](/\ \A j \in DOMAIN emitted, k \in DOMAIN emitted :
                 j < k => \/ emitted[j][1] < emitted[k][1]
                          \/ /\ emitted[j][1] = emitted[k][1]
                             /\ emitted[j][2] < emitted[k][2]
          /\ Len(db_rows) <= Len(emitted)
          /\ \A k \in DOMAIN db_rows : db_rows[k] = emitted[k]
          /\ \A k \in DOMAIN records_buffer :
                 /\ Len(emitted) >= Len(records_buffer)
                 /\ records_buffer[k] =
                        emitted[Len(emitted) - Len(records_buffer) + k])
    /\ [][i' # i =>
            /\ i' = i + 1
            /\ asset'.current_state = STATE_HEALTHY
            /\ asset'.steps_until_change \in HealthyInitMin..HealthyInitMax
            /\ asset'.wear_factor = 0
            /\ asset'.clog_factor = 0
            /\ asset'.current_fault_type = None
            /\ curr_time' = start_date
            /\ step' = 0]_vars

(* The second batch is committed: it holds the last record of asset 1 and  *)
(* then the first records of asset 2, whose timestamps start again.        *)
C12_Witness ==
    /\ i = 2
    /\ Len(db_rows) = 2 * BATCH_SIZE
    /\ db_rows[BATCH_SIZE + 1][1] = 1
    /\ db_rows[BATCH_SIZE + 2][1] = 2
    /\ db_rows[BATCH_SIZE + 2][2] < db_rows[BATCH_SIZE + 1][2]
    /\ db_rows[BATCH_SIZE + 2][2] = strftime(start_date)

(* C13: two runs with the same seed and the same configuration produce the *)
(* same records, one by one: the same asset id, timestamp, status and      *)
(* readings.                                                               *)
C13_SameSeedSameOutput ==
    twin.rec # << >> => (last # << >> /\ twin.rec[1] = last[1].rec)

(* C14: with NUM_MOTORS <= 0 or DAYS_HISTORY <= 0 the run is rejected      *)
(* before any work: no asset is set up, no tick simulated, no record       *)
(* emitted or written, and the run does not report that it completed.      *)
C14_InvalidConfigRejected ==
    (config.NUM_MOTORS <= 0 \/ config.DAYS_HISTORY <= 0) =>
        /\ pc # "done"
        /\ i = 0
        /\ step = 0
        /\ emitted = << >>
        /\ db_writes = 0

StatusLabels == {"NORMAL", "WARNING", "CRITICAL", "MAINTENANCE"}

(* C15: every record the real-time driver persists has a status that is    *)
(* one of NORMAL, WARNING, CRITICAL, MAINTENANCE (as the bulk driver's     *)
(* records have, C4).                                                      *)
C15_PersistedStatusIsLabel ==
    \A k \in DOMAIN db.rows : db.rows[k].status \in StatusLabels

(* C16: whatever a MotorSimulator was constructed with and whatever was    *)
(* called on it, its current_load is in [0,1] and its speed is >= 0.       *)
C16_LoadAndSpeedInRange ==
    \A k \in DOMAIN assets :
        /\ assets[k].current_load >= 0
        /\ assets[k].current_load <= 10000
        /\ assets[k].speed >= 0

(* C17: the degradation_level get_telemetry reports is in [0,100], however *)
(* many cycles the motor has run.                                          *)
C17_ReportedDegradationInRange ==
    \A k \in DOMAIN packet :
        /\ packet[k].degradation_level >= 0
        /\ packet[k].degradation_level <= 1000000

(* C18: after a cycle of a running motor whose temperature is above 80 or  *)
(* whose vibration is above 5.0, or both, the speed is                     *)
(* max(0, target_speed - 200); with neither it is max(0, target_speed).    *)
C18_OneThrottleStep ==
    \A k \in DOMAIN target_speed :
        LET m == assets[1]
        IN  IF m.temperature > 800000 \/ m.vibration > 50000
            THEN m.speed = Max(0, target_speed[k] - Rpm(200))
            ELSE m.speed = Max(0, target_speed[k])

(* How often the driver has called name on asset a. *)
CountCalls(name, a) ==
    Cardinality({j \in DOMAIN calls : calls[j] = <<name, a>>})

(* C19: the driver calls get_telemetry and save_reading in turn, asset by  *)
(* asset in the order of the list; every get_telemetry is one cycle of the *)
(* motor; after k passes of the loop every asset has had k cycles and k    *)
(* save_reading calls, the k-th save_reading before the pacing delay of    *)
(* the k-th pass; and a save_reading commits its record in the call: as    *)
(* long as no write has failed the table holds one committed row per       *)
(* save_reading, in the order of the calls, and nothing is left pending.   *)
C19_OneCycleOneSavePerTick ==
    /\ \A j \in DOMAIN calls :
           calls[j] = << IF j % 2 = 1 THEN "get_telemetry" ELSE "save_reading",
                         (((j - 1) \div 2) % Len(assets)) + 1 >>
    /\ \A a \in DOMAIN assets :
           /\ assets[a].cycle_count = CountCalls("get_telemetry", a)
           /\ rt_pc \in {"generate", "persist", "sleep", "stop", "verify"} =>
                  /\ CountCalls("get_telemetry", a) =
                         cycle + (IF \/ rt_pc = "sleep"
                                     \/ (rt_pc \in {"generate", "persist"} /\ a < asset_ix)
                                     \/ (rt_pc = "persist" /\ a = asset_ix)
                                  THEN 1 ELSE 0)
                  /\ CountCalls("save_reading", a) =
                         cycle + (IF \/ rt_pc = "sleep"
                                     \/ (rt_pc \in {"generate", "persist"} /\ a < asset_ix)
                                  THEN 1 ELSE 0)
    /\ Len(db.rows) + Len(db.txn) <= Len(calls) \div 2
    /\ rt_errors = 0 =>
           /\ Len(db.rows) = Len(calls) \div 2
           /\ db.txn = << >> \/ rt_pc = "finished"
           /\ \A n \in DOMAIN db.rows :
                  db.rows[n].motor_id = assets[calls[2 * n][2]].motor_id

(* The tenth pass is done without a failed write: ten cycles and ten       *)
(* committed rows for each of the two assets.                              *)
C19_Witness ==
    /\ rt_pc = "stop"
    /\ cycle = cycles_to_run
    /\ rt_errors = 0
    /\ \A a \in DOMAIN assets : assets[a].cycle_count = cycles_to_run
    /\ Len(db.rows) = 2 * cycles_to_run
    /\ db.rows[2 * cycles_to_run].motor_id = "MTR-02-FAN"

(* C20: run_simulation stops only when it is cancelled or an error ends    *)
(* it: it never reaches its end of its own accord.                         *)
C20_RunsUntilCancelled ==
    rt_pc \in {"finally", "finished"} => ended_by \in {"KeyboardInterrupt", "Exception"}

(* C21: in real-time mode a failed storage write, whatever made it fail (a *)
(* rejected insert or a connection that could not be established), is      *)
(* logged and the run goes on: no storage failure ends the run through an  *)
(* exception.                                                              *)
C21_StorageFailureDoesNotStop ==
    rt_errors > 0 => ended_by # "Exception"

(* C22: however run_simulation ends (KeyboardInterrupt at any point of the *)
(* try block, the end of the loop, or another exception), no row is        *)
(* committed after the run has ended, and the function returns only        *)
(* through db.close(): when it has returned no connection is open and no   *)
(* insert is left pending.                                                 *)
C22_NoWriteAfterSignalAndClosed ==
    /\ [](rt_pc = "finished" =>
            /\ ended_by \in {"KeyboardInterrupt", "completed", "Exception"}
            /\ db.connection # "open"
            /\ db.txn = << >>)
    /\ [][/\ ended_by # None => db'.rows = db.rows /\ calls' = calls
          /\ rt_pc' = "finished" => rt_pc = "finally" /\ db' = close(db)]_vars

(* The run was interrupted in the middle of the loop, with rows committed  *)
(* and more to come, and has returned with the connection closed.          *)
C22_Witness ==
    /\ rt_pc = "finished"
    /\ ended_by = "KeyboardInterrupt"
    /\ db.connection = "closed"
    /\ Len(db.rows) > 0
    /\ Len(db.rows) < Len(assets) * cycles_to_run

(* C23: in simulated time (ticks of 60 minutes) every FAILING phase lasts   *)
(* between 3 and 15 days, every REPAIRING phase between 4 and 12 hours,     *)
(* and every HEALTHY phase after a repair between 20 and 60 days.           *)
C23_PhaseDurations ==
    pc = "phase_end" =>
        LET minutes == step * SourceIntervalMinutes
        IN  /\ asset.current_state = STATE_FAILING =>
                   3 * 24 * 60 <= minutes /\ minutes <= 15 * 24 * 60
            /\ asset.current_state = STATE_REPAIRING =>
                   4 * 60 <= minutes /\ minutes <= 12 * 60
            /\ asset.current_state = STATE_HEALTHY =>
                   20 * 24 * 60 <= minutes /\ minutes <= 60 * 24 * 60

(* The state that follows state in the cycle. *)
StateAfter(state) ==
    IF state = STATE_HEALTHY THEN STATE_FAILING
    ELSE IF state = STATE_FAILING THEN STATE_REPAIRING
    ELSE STATE_HEALTHY

(* C24: every bulk asset starts HEALTHY; on a tick the state either stays  *)
(* or goes one step along HEALTHY -> FAILING -> REPAIRING -> HEALTHY, and   *)
(* it goes exactly when the decremented countdown is <= 0; the countdown   *)
(* is not negative when it is tested and is at least 1 after every tick.   *)
C24_OneStepAlongTheCycle ==
    /\ [](pc = "step" => asset.steps_until_change >= 1)
    /\ [][/\ i' # i => /\ asset'.current_state = STATE_HEALTHY
                       /\ asset'.steps_until_change >= 1
          /\ pc = "step" =>
                LET n == asset.steps_until_change - 1
                IN  /\ n >= 0
                    /\ asset'.steps_until_change >= 1
                    /\ n <= 0 => asset'.current_state = StateAfter(asset.current_state)
                    /\ n > 0 => /\ asset'.current_state = asset.current_state
                                /\ asset'.steps_until_change = n]_vars

(* The tick that sends a failing asset to repair, with a new countdown. *)
C24_Witness ==
    /\ LastIsCurrent
    /\ last[1].prev = STATE_FAILING
    /\ last[1].state = STATE_REPAIRING
    /\ asset.current_state = STATE_REPAIRING
    /\ asset.steps_until_change >= 1

(* C25: the degradation level of a bulk record is                          *)
(* clamp(wear*15 + clog*2, 0, 100), as the column stores it (to two        *)
(* decimals), of the accumulators as the tick's transition and             *)
(* accumulation steps leave them: the record of the tick that ends a       *)
(* repair reports 0, and the record of the tick that starts a failure      *)
(* includes that tick's increment.                                         *)
C25_DegradationOfThisTick ==
    LastIsCurrent =>
        LET deg_calc == (asset.wear_factor * 15) + (asset.clog_factor * 2)
            clamped  == IF deg_calc < 0 THEN 0
                        ELSE IF deg_calc > 1000000 THEN 1000000 ELSE deg_calc
            rec      == last[1].rec
        IN  /\ rec.degradation_level = Round2(clamped)
            /\ (last[1].prev = STATE_REPAIRING /\ last[1].state = STATE_HEALTHY)
                   => rec.degradation_level = 0
            /\ (last[1].prev = STATE_HEALTHY /\ last[1].state = STATE_FAILING)
                   => /\ rec.degradation_level > 0
                      /\ rec.degradation_level \in
                             {Round2((w * 15) + (c * 2)) :
                                 w \in WearIncrements \cup {0},
                                 c \in ClogIncrements \cup {0}}

(* The tick on which an asset with worn bearings starts to fail: its       *)
(* record already has the first increment of the wear.                     *)
C25_Witness ==
    /\ LastIsCurrent
    /\ last[1].prev = STATE_HEALTHY
    /\ last[1].state = STATE_FAILING
    /\ asset.current_fault_type = "BEARING_WEAR"
    /\ asset.wear_factor = 80
    /\ last[1].rec.degradation_level = 1200

(* C26: at every bulk tick the fault type is set if and only if the state  *)
(* is FAILING, and an accumulator is non-zero only while the state is      *)
(* FAILING.                                                                *)
C26_FaultDataOnlyWhileFailing ==
    LastIsCurrent =>
        /\ (asset.current_fault_type # None) <=> (asset.current_state = STATE_FAILING)
        /\ asset.current_state # STATE_FAILING =>
               (asset.wear_factor = 0 /\ asset.clog_factor = 0)

(* C30: a bulk run in which no storage write fails terminates, and when it *)
(* has, every emitted record is committed exactly once, the final partial  *)
(* batch included: the committed rows and total_inserted both number       *)
(* NUM_MOTORS * total_steps, and nothing in the buffer is uncommitted.     *)
C30_TerminatesWithAllCommitted ==
    <>(/\ pc \in {"done", "crashed"}
       /\ db_errors = 0 =>
            /\ pc = "done"
            /\ db_rows = emitted
            /\ \A a \in DOMAIN db_rows, b \in DOMAIN db_rows :
                   db_rows[a] = db_rows[b] => a = b
            /\ Len(db_rows) = config.NUM_MOTORS * total_steps
            /\ total_inserted = config.NUM_MOTORS * total_steps
            /\ db_txn = << >>
            /\ \A k \in DOMAIN records_buffer :
                   \E n \in DOMAIN db_rows : db_rows[n] = records_buffer[k])

(* A run without a failed write has returned, and its last write was the   *)
(* final commit of a partial batch.                                        *)
C30_Witness ==
    /\ pc = "done"
    /\ db_errors = 0
    /\ records_buffer # << >>
    /\ Len(records_buffer) < BATCH_SIZE
    /\ Len(db_rows) = config.NUM_MOTORS * total_steps
    /\ db_rows[Len(db_rows)] = records_buffer[Len(records_buffer)]

(* C27: throttling does not add up from cycle to cycle.  On every cycle of *)
(* a running motor the unthrottled target is base_rpm less the load drag   *)
(* plus the noise of at most 50, whatever the speed was before; the speed  *)
(* the cycle leaves is the target or the target less one or two steps of   *)
(* 200, floored at 0, so with a load of at most 1 (a drag of at most 20)   *)
(* it is never below base_rpm - 20 - 50 - 400; and the cycle updates       *)
(* temperature and vibration by the same formulas, throttled or not.       *)
C27_ThrottleNotCumulative ==
    [][(rt_pc = "api" /\ assets[1].is_running
        /\ assets'[1].cycle_count = assets[1].cycle_count + 1) =>
       LET m  == assets[1]
           m1 == assets'[1]
           ratio == m.speed \div m.base_rpm
           heat  == FixMul(FixMul(ratio, m.temp_factor * 10), m.current_load)
                    + (m1.degradation_accumulated * 5)
           shake == FixMul(FixMul(ratio, m.vibration_factor), m.current_load)
                    + (m1.degradation_accumulated * 2)
       IN  /\ target_speed' # << >>
           /\ \E n \in -50..50 :
                  target_speed'[1] = ((m.base_rpm + n) * 10000) - (m.current_load * 20)
           /\ m1.speed \in {Max(0, target_speed'[1] - (k * 2000000)) : k \in 0..2}
           /\ m.current_load <= 10000 =>
                  m1.speed >= (m.base_rpm - 470) * 10000
           /\ m1.degradation_accumulated > m.degradation_accumulated
           /\ \E noise \in -2000..3000 :
                  m1.temperature = ((m.temperature + heat) + noise) - 1500
           /\ \E noise \in -500..1000 :
                  m1.vibration = (m.base_vibration + shake) + noise]_vars

(* The second cycle in a row of a motor that is too hot and shakes too     *)
(* much: its speed is two steps below this cycle's target, not four.       *)
C27_Witness ==
    /\ rt_pc = "api"
    /\ assets[1].is_running
    /\ assets[1].cycle_count = 2
    /\ assets[1].base_rpm = 1800
    /\ assets[1].base_temperature = 850000
    /\ assets[1].base_vibration = 60000
    /\ assets[1].temperature > TEMP_THRESHOLD_WARNING
    /\ assets[1].vibration > VIBRATION_THRESHOLD_WARNING
    /\ target_speed # << >>
    /\ assets[1].speed = target_speed[1] - 4000000

(* C28: perform_maintenance on a running motor changes nothing; on a       *)
(* stopped motor it sets the accumulated degradation to 0 and temperature  *)
(* and vibration to their base values, and nothing else.  No other         *)
(* operation lowers the accumulated degradation: stop() and then start()   *)
(* keep it.                                                                *)
C28_MaintenanceOnlyWhenStopped ==
    /\ [](rt_pc = "api" =>
            LET m == assets[1]
                r == perform_maintenance(m)
            IN  /\ m.is_running => r = m
                /\ ~m.is_running =>
                     /\ r.degradation_accumulated = 0
                     /\ r.temperature = m.base_temperature
                     /\ r.vibration = m.base_vibration
                     /\ r.speed = m.speed
                     /\ r.current_load = m.current_load
                     /\ r.cycle_count = m.cycle_count
                     /\ ~r.is_running
                /\ start(stop(m)).degradation_accumulated = m.degradation_accumulated)
    /\ [][(rt_pc = "api"
           /\ assets'[1].degradation_accumulated # assets[1].degradation_accumulated) =>
             \/ /\ assets[1].is_running
                /\ assets'[1].cycle_count = assets[1].cycle_count + 1
                /\ assets'[1].degradation_accumulated > assets[1].degradation_accumulated
             \/ /\ ~assets[1].is_running
                /\ assets'[1].degradation_accumulated = 0
                /\ assets'[1].temperature = assets[1].base_temperature
                /\ assets'[1].vibration = assets[1].base_vibration
                /\ assets'[1].cycle_count = assets[1].cycle_count]_vars

(* A motor that ran two cycles, was stopped and then maintained. *)
C28_Witness ==
    /\ rt_pc = "api"
    /\ ~assets[1].is_running
    /\ assets[1].cycle_count = 2
    /\ assets[1].degradation_accumulated = 0
    /\ assets[1].temperature = assets[1].base_temperature
    /\ assets[1].vibration = assets[1].base_vibration

(* C29: a motor that is not running is frozen.  simulate_cycle and         *)
(* get_telemetry leave it as it is (temperature, vibration, accumulated    *)
(* degradation, load, cycle counter and all), get_telemetry reports        *)
(* STOPPED, and its speed is 0, before the first start() and after every   *)
(* stop(), so the reported speed is 0 as well.                             *)
C29_StoppedMotorIsFrozen ==
    /\ []((rt_pc = "api" /\ ~assets[1].is_running) =>
            /\ assets[1].speed = 0
            /\ \A speed_noise \in SpeedNoise, thermal_noise \in ThermalNoise,
                  mech_noise \in MechNoise :
                 LET m == assets[1]
                     r == get_telemetry(m, wall, speed_noise, thermal_noise, mech_noise)
                 IN  /\ simulate_cycle(m, speed_noise, thermal_noise, mech_noise) = m
                     /\ r.motor = m
                     /\ r.telemetry_packet.status = "STOPPED"
                     /\ r.telemetry_packet.speed_rpm = 0)
    /\ [](rt_pc = "api" => ~stop(assets[1]).is_running /\ stop(assets[1]).speed = 0)
    /\ [][(rt_pc = "api" /\ ~assets[1].is_running /\ packet' # packet) =>
             /\ assets' = assets
             /\ packet'[1].status = "STOPPED"
             /\ packet'[1].speed_rpm = 0]_vars

(* A motor that ran, was stopped, and was then read: the packet says       *)
(* STOPPED at speed 0 and carries the degradation of the cycles it ran.    *)
C29_Witness ==
    /\ rt_pc = "api"
    /\ ~assets[1].is_running
    /\ assets[1].cycle_count >= 1
    /\ assets[1].degradation_accumulated > 0
    /\ packet # << >>
    /\ packet[1].status = "STOPPED"
    /\ packet[1].speed_rpm = 0
    /\ packet[1].degradation_level = assets[1].degradation_accumulated

====
